---- MODULE Spec2Model ----
(***************************************************************************)
(* lgtm-gitlab (src/main.go): a webhook endpoint that counts LGTM comments *)
(* per merge request in a bolt store and asks gitlab to merge when the     *)
(* count reaches a multiple of lgtm_count.                                 *)
(*                                                                         *)
(* Strings the program converts or formats (notes, decimal counters, URL   *)
(* paths, error messages) are sequences of one-character or fragment       *)
(* strings, so that ToUpper, Itoa, Atoi, Sprintf and Fprintf are computed. *)
(* Strings it only compares (user names, kinds, statuses) are plain.       *)
(***************************************************************************)
EXTENDS Integers, Sequences, FiniteSets, TLC

\* ------------------------------------------------------------------ bounds

\* webhook requests received during one run of the concurrent system
MaxRequests == 3
\* requests of a sequential run (each background task ends before the next request)
MaxSeqRequests == 4
\* requests of a run of the classifier over the wide input set
MaxClassifyRequests == 2
\* requests of a run checked for liveness
MaxFairRequests == 2
\* largest configured lgtm_count
MaxThreshold == 3
\* storage steps that fail during one run
MaxFailures == 1
\* requests of a run in which the process may crash and restart
MaxCrashRequests == 2
\* requests of a sequential run in which the allow-list file changes
MaxReloadRequests == 3
\* requests of a run with the handler at the finer grain
MaxRespondRequests == 2

\* ------------------------------------------------------- program constants

ObjectNote == "note"
NoteableTypeMergeRequest == "MergeRequest"
NoteLGTM == <<"L", "G", "T", "M">>
StatusCanbeMerged == "can_be_merged"
bucketName == "lgtm"
RespOK == <<"OK">>
ErrInvalidRequest == <<"invalid request body">>
ErrInvalidContentType == <<"invalid content type">>
StatusOK == 200
StatusBadRequest == 400
StatusMethodNotAllowed == 405
StatusNotAcceptable == 406

\* ---------------------------------------------------------------- strings

LowerLetters ==
  <<"a","b","c","d","e","f","g","h","i","j","k","l","m",
    "n","o","p","q","r","s","t","u","v","w","x","y","z">>

UpperLetters ==
  <<"A","B","C","D","E","F","G","H","I","J","K","L","M",
    "N","O","P","Q","R","S","T","U","V","W","X","Y","Z">>

\* unicode.ToUpper on one character
ToUpperChar(c) ==
  IF \E k \in DOMAIN LowerLetters : LowerLetters[k] = c
  THEN UpperLetters[CHOOSE k \in DOMAIN LowerLetters : LowerLetters[k] = c]
  ELSE c

\* strings.ToUpper
ToUpper(s) == [k \in DOMAIN s |-> ToUpperChar(s[k])]

Digits == <<"0","1","2","3","4","5","6","7","8","9">>

DigitChar(d) == Digits[d + 1]

IsDigit(c) == \E k \in DOMAIN Digits : Digits[k] = c

DigitValue(c) == (CHOOSE k \in DOMAIN Digits : Digits[k] = c) - 1

RECURSIVE ItoaNat(_)
ItoaNat(n) == IF n < 10 THEN <<DigitChar(n)>>
              ELSE Append(ItoaNat(n \div 10), DigitChar(n % 10))

\* strconv.Itoa
Itoa(n) == IF n < 0 THEN <<"-">> \o ItoaNat(0 - n) ELSE ItoaNat(n)

RECURSIVE DigitsValue(_)
DigitsValue(s) == IF s = <<>> THEN 0
                  ELSE 10 * DigitsValue(SubSeq(s, 1, Len(s) - 1)) + DigitValue(s[Len(s)])

AllDigits(s) == s # <<>> /\ \A k \in DOMAIN s : IsDigit(s[k])

\* strconv.Atoi: [ok, value]; a sign is accepted, anything else than digits is an error
Atoi(s) ==
  IF AllDigits(s) THEN [ok |-> TRUE, value |-> DigitsValue(s)]
  ELSE IF Len(s) > 1 /\ s[1] \in {"-", "+"} /\ AllDigits(Tail(s))
       THEN [ok |-> TRUE,
             value |-> IF s[1] = "-" THEN 0 - DigitsValue(Tail(s)) ELSE DigitsValue(Tail(s))]
       ELSE [ok |-> FALSE, value |-> 0]

\* fmt.Sprintf("error occurs:%s", msg)
SprintfErrorOccurs(msg) == <<"error occurs:">> \o msg

\* fmt with a format and no operands: "%%" prints "%", "%" and a verb prints
\* "%!verb(MISSING)", a trailing "%" prints "%!(NOVERB)". A format is a sequence
\* of fragments in which "%" and the character after it are fragments of their own.
RECURSIVE FormatNoArgs(_)
FormatNoArgs(f) ==
  IF f = <<>> THEN <<>>
  ELSE IF f[1] # "%" THEN <<f[1]>> \o FormatNoArgs(Tail(f))
  ELSE IF Len(f) = 1 THEN <<"%!(NOVERB)">>
  ELSE IF f[2] = "%" THEN <<"%">> \o FormatNoArgs(SubSeq(f, 3, Len(f)))
  ELSE <<"%!", f[2], "(MISSING)">> \o FormatNoArgs(SubSeq(f, 3, Len(f)))

\* fmt.Sprintf("/api/v4/projects/%d/merge_requests/%d/merge", projectID, mergeRequestIID)
SprintfMergePath(projectID, mergeRequestIID) ==
  <<"/api/v4/projects/">> \o Itoa(projectID) \o <<"/merge_requests/">>
    \o Itoa(mergeRequestIID) \o <<"/merge">>

\* url.Parse of the configured gitlab_url, given as <<scheme and host, path fragments...>>
UrlParse(urlStr) == [Host |-> urlStr[1], Path |-> Tail(urlStr)]

\* (*url.URL).String
UrlString(u) == <<u.Host>> \o u.Path

\* ------------------------------------------------------------------ inputs

\* A decoded webhook event: the fields of Comment that checkLgtm reads.
Comment(kind, user, project, noteable, note, iid, status, remove) ==
  [ObjectKind |-> kind, Username |-> user, ProjectID |-> project,
   NoteableType |-> noteable, Note |-> note, Iid |-> iid,
   MergeStatus |-> status, ForceRemoveSourceBranch |-> remove]

\* the commenters and notes of the inputs
alice == <<"a","l","i","c","e">>
bob == <<"b","o","b">>
carol == <<"c","a","r","o","l">>
AliceCapital == <<"A","l","i","c","e">>
lgtm == <<"l","g","t","m">>
Lgtm == <<"L","g","t","m">>
lgtmPlease == <<"l","g","t","m"," ","p","l","e","a","s","e">>

\* An LGTM comment on a merge request.
Approval(user, project, iid, status) ==
  Comment(ObjectNote, user, project, NoteableTypeMergeRequest,
          lgtm, iid, status, "true")

\* A webhook request: its Content-Type header, its method and its body. A body is
\* empty, or text that is no JSON value (its first character is what the decoder
\* reports), or the JSON of an event.
JsonPost(c) == [ContentType |-> "application/json", Method |-> "POST",
                Body |-> [kind |-> "json", comment |-> c]]

\* reviewers.yaml as ioutil.ReadFile and yaml.Unmarshal see it: missing, a document
\* with no reviewers key (an empty file included), a document whose reviewers key
\* holds a list (null and [] hold the empty list), or text that is no YAML.
FileMissing == [kind |-> "missing", list |-> <<>>]
FileNoKey == [kind |-> "nokey", list |-> <<>>]
FileList(l) == [kind |-> "list", list |-> l]
FileMalformed == [kind |-> "malformed", list |-> <<>>]

\* what the remote answers to a merge request: a status code, or 0 for a request
\* that failed on the network
RemoteAnswers == {0, StatusOK, StatusMethodNotAllowed, StatusNotAcceptable, 500}

\* the configured gitlab_url and token
GitlabURL == <<"https://your.gitlab.com">>
PrivateToken == "token"

\* ------------------------------------------------------------------- state

VARIABLES
  validLGTMCount,  \* flag lgtm_count
  lgtmNote,        \* flag lgtm_note
  reviewersFile,   \* the content of reviewers.yaml
  reviewers,       \* var reviewers Conf: its Reviewers slice
  glURL,           \* var glURL *url.URL
  mutex,           \* var mutex: 0 when free, else the task holding it
  db,              \* the bolt file: what is committed
  tx,              \* bolt's writer lock and the open write transaction
  running,         \* FALSE once the process has exited
  tasks,           \* the background goroutines, in spawn order; a goroutine of a
                   \* process that has died keeps in `at` where it was
  responses,       \* one record per handled request: the request and its response
  outbound,        \* the requests sent to gitlab, in order
  failures         \* storage steps that have failed

vars == <<validLGTMCount, lgtmNote, reviewersFile, reviewers, glURL, mutex, db, tx,
          running, tasks, responses, outbound, failures>>

config == <<validLGTMCount, lgtmNote, reviewersFile>>

EmptyStore == [bucket |-> FALSE, kv |-> <<>>]

NoTx == [owner |-> 0, view |-> EmptyStore]

\* The state after main() has parsed the flags, opened the store and parsed the URL.
InitWith(thresholds, notes, files) ==
  /\ validLGTMCount \in thresholds
  /\ lgtmNote \in notes
  /\ reviewersFile \in files
  /\ reviewers = <<>>
  /\ glURL = UrlParse(GitlabURL)
  /\ mutex = 0
  /\ db = EmptyStore
  /\ tx = NoTx
  /\ running = TRUE
  /\ tasks = <<>>
  /\ responses = <<>>
  /\ outbound = <<>>
  /\ failures = 0

TaskIds == DOMAIN tasks

NewTask(c, req) ==
  [pc |-> "checkLgtm", comment |-> c, req |-> req, doc |-> FileMissing,
   n |-> 0, k |-> 0, authorized |-> "", verdict |-> "", calls |-> 0, count |-> 0,
   canbeMerged |-> FALSE, err |-> "", path |-> <<>>, sent |-> 0, log |-> "",
   at |-> ""]

Idle == \A i \in TaskIds : tasks[i].pc \in {"done", "exited"}

\* --------------------------------------------------------- webhook endpoint

\* json.NewDecoder(r.Body).Decode(&comment): the error message, <<>> for none
DecodeError(body) ==
  CASE body.kind = "empty" -> <<"EOF">>
    [] body.kind = "text" ->
         <<"invalid character ", "'", body.char, "'", " looking for beginning of value">>
    [] OTHER -> <<>>

\* errRet of LGTMHandler: the error message, <<>> for nil
HandlerError(r) ==
  IF r.ContentType # "application/json" THEN ErrInvalidContentType
  ELSE IF r.Method # "POST" THEN ErrInvalidRequest
  ELSE IF r.Body.kind = "nil" THEN ErrInvalidRequest
  ELSE DecodeError(r.Body)

\* the deferred function of LGTMHandler: the status and body written
HandlerResponse(errRet) ==
  IF errRet # <<>>
  THEN [status |-> StatusBadRequest, body |-> FormatNoArgs(SprintfErrorOccurs(errRet))]
  ELSE [status |-> StatusOK, body |-> RespOK]

\* LGTMHandler: validate, decode, spawn checkLgtm, respond.
LGTMHandler(r, max) ==
  /\ running
  /\ Len(responses) < max
  /\ LET errRet == HandlerError(r)
         resp == HandlerResponse(errRet)
         spawn == errRet = <<>>
     IN /\ tasks' = IF spawn
                    THEN Append(tasks, NewTask(r.Body.comment, Len(responses) + 1))
                    ELSE tasks
        /\ responses' = Append(responses,
                          [request |-> r, status |-> resp.status, body |-> resp.body,
                           task |-> IF spawn THEN Len(tasks) + 1 ELSE 0])
  /\ UNCHANGED <<config, reviewers, glURL, mutex, db, tx, running, outbound, failures>>

\* LGTMHandler at a finer grain, for what happens between `go checkLgtm(comment)`
\* (line 175) and the deferred function that writes the response (lines 145-154):
\* the body of the handler up to its return. A response with status 0 is one not
\* written yet.
HandlerBody(r, max) ==
  /\ running
  /\ Len(responses) < max
  /\ LET spawn == HandlerError(r) = <<>>
     IN /\ tasks' = IF spawn
                    THEN Append(tasks, NewTask(r.Body.comment, Len(responses) + 1))
                    ELSE tasks
        /\ responses' = Append(responses,
                          [request |-> r, status |-> 0, body |-> <<>>,
                           task |-> IF spawn THEN Len(tasks) + 1 ELSE 0])
  /\ UNCHANGED <<config, reviewers, glURL, mutex, db, tx, running, outbound, failures>>

\* the deferred function of the n-th request's handler writes the response
HandlerDeferred(n) ==
  /\ running
  /\ n \in DOMAIN responses
  /\ responses[n].status = 0
  /\ LET resp == HandlerResponse(HandlerError(responses[n].request))
     IN responses' = [responses EXCEPT ![n].status = resp.status, ![n].body = resp.body]
  /\ UNCHANGED <<config, reviewers, glURL, mutex, db, tx, running, tasks, outbound,
                 failures>>

\* --------------------------------------------------------- event classifier

\* line 194: the note is an approval
NoteMatches(note) == ToUpper(note) = lgtmNote

AfterReviewersNoteFirst(c) ==
  IF ~NoteMatches(c.Note) THEN "note"
  ELSE IF c.NoteableType # NoteableTypeMergeRequest THEN "noteable"
  ELSE "pass"

\* lines 189-197, reached once the commenter is authorized: the check that rejects
\* the event, "pass" when none does
AfterReviewers(c) ==
  IF c.NoteableType # NoteableTypeMergeRequest THEN "noteable"
  ELSE IF ~NoteMatches(c.Note) THEN "note"
  ELSE "pass"

\* line 238: the entry is the commenter
IsReviewer(entry, username) == entry = username

\* checkReviewers has returned `ok` for task i; checkLgtm goes on to its other checks
Classified(t, ok) ==
  IF ~ok
  THEN [t EXCEPT !.authorized = "no", !.verdict = "reviewer", !.pc = "done"]
  ELSE LET v == AfterReviewers(t.comment)
       IN [t EXCEPT !.authorized = "yes", !.verdict = v,
                    !.pc = IF v = "pass" THEN "lock" ELSE "done"]

\* checkLgtm up to getReviewers' ioutil.ReadFile
CheckLgtm(i) ==
  /\ running
  /\ tasks[i].pc = "checkLgtm"
  /\ LET t == tasks[i]
     IN tasks' = [tasks EXCEPT ![i] =
          IF t.comment.ObjectKind # ObjectNote
          THEN [t EXCEPT !.verdict = "kind", !.pc = "done"]
          ELSE IF reviewersFile.kind = "missing"
          THEN Classified(t, TRUE)
          ELSE [t EXCEPT !.doc = reviewersFile, !.pc = "unmarshal"]]
  /\ UNCHANGED <<config, reviewers, glURL, mutex, db, tx, running, responses,
                 outbound, failures>>

\* yaml.Unmarshal(yamlFile, c) into the global: nothing for a document without the
\* key, a fresh slice of empty strings for a list, logrus.Fatalf for no YAML
Unmarshal(i) ==
  /\ running
  /\ tasks[i].pc = "unmarshal"
  /\ LET t == tasks[i]
         l == t.doc.list
     IN CASE t.doc.kind = "malformed" ->
               /\ running' = FALSE
               /\ tasks' = [tasks EXCEPT ![i].pc = "exited"]
               /\ UNCHANGED reviewers
          [] t.doc.kind = "list" ->
               /\ reviewers' = [k \in 1..Len(l) |-> <<>>]
               /\ tasks' = [tasks EXCEPT ![i].pc = IF l = <<>> THEN "len" ELSE "fill",
                                         ![i].k = 1]
               /\ UNCHANGED running
          [] OTHER ->
               /\ tasks' = [tasks EXCEPT ![i].pc = "len"]
               /\ UNCHANGED <<reviewers, running>>
  /\ UNCHANGED <<config, glURL, mutex, db, tx, responses, outbound, failures>>

\* yaml.Unmarshal decoding one entry into the slice the global holds now; after the
\* last one it sets the slice to its first Len(list) entries
UnmarshalFill(i) ==
  /\ running
  /\ tasks[i].pc = "fill"
  /\ LET t == tasks[i]
         l == t.doc.list
     IN IF t.k > Len(reviewers)
        THEN /\ running' = FALSE
             /\ tasks' = [tasks EXCEPT ![i].pc = "exited"]
             /\ UNCHANGED reviewers
        ELSE /\ reviewers' = LET w == [reviewers EXCEPT ![t.k] = l[t.k]]
                             IN IF t.k = Len(l) THEN SubSeq(w, 1, Len(l)) ELSE w
             /\ tasks' = [tasks EXCEPT ![i].k = t.k + 1,
                                       ![i].pc = IF t.k = Len(l) THEN "len" ELSE "fill"]
             /\ UNCHANGED running
  /\ UNCHANGED <<config, glURL, mutex, db, tx, responses, outbound, failures>>

\* line 233: an empty list authorizes everyone
CheckLen(i) ==
  /\ running
  /\ tasks[i].pc = "len"
  /\ tasks' = [tasks EXCEPT ![i] =
       IF Len(reviewers) = 0 THEN Classified(tasks[i], TRUE)
       ELSE [tasks[i] EXCEPT !.pc = "range"]]
  /\ UNCHANGED <<config, reviewers, glURL, mutex, db, tx, running, responses,
                 outbound, failures>>

\* line 237: the range expression is evaluated once
RangeReviewers(i) ==
  /\ running
  /\ tasks[i].pc = "range"
  /\ tasks' = [tasks EXCEPT ![i] =
       IF Len(reviewers) = 0 THEN Classified(tasks[i], FALSE)
       ELSE [tasks[i] EXCEPT !.n = Len(reviewers), !.k = 1, !.pc = "iter"]]
  /\ UNCHANGED <<config, reviewers, glURL, mutex, db, tx, running, responses,
                 outbound, failures>>

\* lines 238-243: one iteration, reading the entry from the global
CompareReviewer(i) ==
  /\ running
  /\ tasks[i].pc = "iter"
  /\ LET t == tasks[i]
     IN IF t.k > Len(reviewers)
        THEN /\ running' = FALSE
             /\ tasks' = [tasks EXCEPT ![i].pc = "exited"]
        ELSE /\ tasks' = [tasks EXCEPT ![i] =
                  IF IsReviewer(reviewers[t.k], t.comment.Username)
                  THEN Classified(t, TRUE)
                  ELSE IF t.k = t.n THEN Classified(t, FALSE)
                  ELSE [t EXCEPT !.k = t.k + 1]]
             /\ UNCHANGED running
  /\ UNCHANGED <<config, reviewers, glURL, mutex, db, tx, responses, outbound, failures>>

\* ---------------------------------------------------- approval counter store

\* bucket.Get(key): nil (the empty string) for an absent key
BucketGet(store, key) == IF key \in DOMAIN store.kv THEN store.kv[key] ELSE <<>>

\* bucket.Put(key, value)
BucketPut(store, key, value) ==
  [store EXCEPT !.kv = [x \in DOMAIN store.kv \cup {key} |->
                          IF x = key THEN value ELSE store.kv[x]]]

ReadCountAlwaysZero(countByte) == 0

\* lines 258-268: the count read back, 0 for an absent or malformed value
ReadCount(countByte) ==
  IF Len(countByte) > 0
  THEN LET a == Atoi(countByte) IN IF a.ok THEN a.value ELSE 0
  ELSE 0

\* line 270
Increment(count) == count + 1

CheckStatusAtLeast(count) == count >= validLGTMCount

\* line 275
CheckStatus(count) == count % validLGTMCount = 0

ShouldMergeInverted(canbeMerged, mergeStatus) ==
  canbeMerged /\ mergeStatus # StatusCanbeMerged

ShouldMergeWhenMergeable(canbeMerged, mergeStatus) == mergeStatus = StatusCanbeMerged

\* line 217
ShouldMerge(canbeMerged, mergeStatus) == canbeMerged /\ mergeStatus = StatusCanbeMerged

ReturnedErrorUnchecked(t, status, err) ==
  [t EXCEPT !.canbeMerged = status, !.err = err,
            !.pc = IF ShouldMerge(status, t.comment.MergeStatus)
                   THEN "urlRead" ELSE "done"]

\* checkLGTMCount returns (status, err) to checkLgtm with the deferred mutex.Unlock;
\* checkLgtm logs an error and returns, or decides on the merge (lines 212-227)
Returned(t, status, err) ==
  [t EXCEPT !.canbeMerged = status, !.err = err,
            !.pc = IF err = "" /\ ShouldMerge(status, t.comment.MergeStatus)
                   THEN "urlRead" ELSE "done"]

\* a storage step may fail while the run's failures are not used up
MayFail(fail) == fail => failures < MaxFailures

\* line 247: mutex.Lock()
Lock(i) ==
  /\ running
  /\ tasks[i].pc = "lock"
  /\ mutex = 0
  /\ mutex' = i
  /\ tasks' = [tasks EXCEPT ![i].pc = "begin", ![i].calls = tasks[i].calls + 1]
  /\ UNCHANGED <<config, reviewers, glURL, db, tx, running, responses, outbound, failures>>

\* lines 250-253: db.Begin(true) waits for bolt's writer lock; on an error it has
\* released it
Begin(i) ==
  /\ running
  /\ tasks[i].pc = "begin"
  /\ tx.owner = 0
  /\ \E fail \in BOOLEAN :
       /\ MayFail(fail)
       /\ IF fail
          THEN /\ tasks' = [tasks EXCEPT ![i] = Returned(tasks[i], FALSE, "begin")]
               /\ mutex' = 0
               /\ failures' = failures + 1
               /\ UNCHANGED tx
          ELSE /\ tasks' = [tasks EXCEPT ![i].pc = "bucket"]
               /\ tx' = [owner |-> i, view |-> db]
               /\ UNCHANGED <<mutex, failures>>
  /\ UNCHANGED <<config, reviewers, glURL, db, running, responses, outbound>>

\* lines 254-257: tx.CreateBucketIfNotExists; on an error the function returns with
\* the transaction neither committed nor rolled back
CreateBucket(i) ==
  /\ running
  /\ tasks[i].pc = "bucket"
  /\ \E fail \in BOOLEAN :
       /\ MayFail(fail)
       /\ IF fail
          THEN /\ tasks' = [tasks EXCEPT ![i] = Returned(tasks[i], FALSE, "bucket")]
               /\ mutex' = 0
               /\ failures' = failures + 1
               /\ UNCHANGED tx
          ELSE /\ tasks' = [tasks EXCEPT ![i].pc = "put"]
               /\ tx' = [tx EXCEPT !.view.bucket = TRUE]
               /\ UNCHANGED <<mutex, failures>>
  /\ UNCHANGED <<config, reviewers, glURL, db, running, responses, outbound>>

\* lines 258-275: read the count, add one, bucket.Put; on an error the function
\* returns with the transaction neither committed nor rolled back
Put(i) ==
  /\ running
  /\ tasks[i].pc = "put"
  /\ LET countKey == Itoa(tasks[i].comment.Iid)
         count == Increment(ReadCount(BucketGet(tx.view, countKey)))
     IN \E fail \in BOOLEAN :
          /\ MayFail(fail)
          /\ IF fail
             THEN /\ tasks' = [tasks EXCEPT ![i] = Returned(tasks[i], FALSE, "put")]
                  /\ mutex' = 0
                  /\ failures' = failures + 1
                  /\ UNCHANGED tx
             ELSE /\ tasks' = [tasks EXCEPT ![i].pc = "commit", ![i].count = count,
                                            ![i].canbeMerged = CheckStatus(count)]
                  /\ tx' = [tx EXCEPT !.view = BucketPut(tx.view, countKey, Itoa(count))]
                  /\ UNCHANGED <<mutex, failures>>
  /\ UNCHANGED <<config, reviewers, glURL, db, running, responses, outbound>>

\* lines 277-285: tx.Commit writes the transaction or rolls it back, and releases
\* bolt's writer lock either way
Commit(i) ==
  /\ running
  /\ tasks[i].pc = "commit"
  /\ \E fail \in BOOLEAN :
       /\ MayFail(fail)
       /\ IF fail
          THEN /\ tasks' = [tasks EXCEPT ![i] =
                              Returned(tasks[i], tasks[i].canbeMerged, "commit")]
               /\ failures' = failures + 1
               /\ UNCHANGED db
          ELSE /\ tasks' = [tasks EXCEPT ![i] =
                              Returned(tasks[i], tasks[i].canbeMerged, "")]
               /\ db' = tx.view
               /\ UNCHANGED failures
  /\ tx' = NoTx
  /\ mutex' = 0
  /\ UNCHANGED <<config, reviewers, glURL, running, responses, outbound>>

\* ------------------------------------------------------------ merge trigger

\* json.Marshal(params)
MergeBody(shouldRemoveSourceBranch) ==
  <<"{\"should_remove_source_branch\":\"", shouldRemoveSourceBranch, "\"}">>

ClassifyKnownOnly(code) ==
  CASE code = StatusOK -> "accept merge request successfully"
    [] code = StatusMethodNotAllowed -> "it has some conflicts and can not be merged"
    [] OTHER -> "merge request is already merged or closed"

\* lines 313-328: what is logged for a response code
Classify(code) ==
  CASE code = StatusOK -> "accept merge request successfully"
    [] code = StatusMethodNotAllowed -> "it has some conflicts and can not be merged"
    [] code = StatusNotAcceptable -> "merge request is already merged or closed"
    [] OTHER -> "accept merge failed"

\* line 297, right-hand side: glURL.Path and the formatted path, concatenated
UrlRead(i) ==
  /\ running
  /\ tasks[i].pc = "urlRead"
  /\ tasks' = [tasks EXCEPT ![i].pc = "urlWrite",
                            ![i].path = glURL.Path \o
                               SprintfMergePath(tasks[i].comment.ProjectID,
                                                tasks[i].comment.Iid)]
  /\ UNCHANGED <<config, reviewers, glURL, mutex, db, tx, running, responses,
                 outbound, failures>>

\* line 297, the assignment to glURL.Path
UrlWrite(i) ==
  /\ running
  /\ tasks[i].pc = "urlWrite"
  /\ glURL' = [glURL EXCEPT !.Path = tasks[i].path]
  /\ tasks' = [tasks EXCEPT ![i].pc = "send"]
  /\ UNCHANGED <<config, reviewers, mutex, db, tx, running, responses, outbound, failures>>

\* lines 298-329: the request to glURL.String(), sent once, and the answer logged
Send(i, answers) ==
  /\ running
  /\ tasks[i].pc = "send"
  /\ \E answer \in answers :
       /\ outbound' = Append(outbound,
            [task |-> i, method |-> "PUT", url |-> UrlString(glURL),
             token |-> PrivateToken,
             body |-> MergeBody(tasks[i].comment.ForceRemoveSourceBranch),
             answer |-> answer])
       /\ tasks' = [tasks EXCEPT ![i].pc = "done", ![i].sent = Len(outbound) + 1,
                                 ![i].log = IF answer = 0 THEN "execute request failed"
                                            ELSE Classify(answer)]
  /\ UNCHANGED <<config, reviewers, glURL, mutex, db, tx, running, responses, failures>>

\* one step of background task i
TaskStep(i, answers) ==
  \/ CheckLgtm(i)
  \/ Unmarshal(i)
  \/ UnmarshalFill(i)
  \/ CheckLen(i)
  \/ RangeReviewers(i)
  \/ CompareReviewer(i)
  \/ Lock(i)
  \/ Begin(i)
  \/ CreateBucket(i)
  \/ Put(i)
  \/ Commit(i)
  \/ UrlRead(i)
  \/ UrlWrite(i)
  \/ Send(i, answers)

\* --------------------------------------------------------- crash and restart

\* the process is killed or the machine loses power: nothing runs any more, what
\* bolt has committed stays in the file
Crash ==
  /\ running
  /\ running' = FALSE
  /\ UNCHANGED <<config, reviewers, glURL, mutex, db, tx, tasks, responses, outbound,
                 failures>>

\* a goroutine of the dead process, stopped where it was
Killed(t) ==
  IF t.pc \in {"done", "exited"} THEN t ELSE [t EXCEPT !.pc = "exited", !.at = t.pc]

RestartFreshStore ==
  /\ ~running
  /\ running' = TRUE
  /\ tasks' = [i \in DOMAIN tasks |-> Killed(tasks[i])]
  /\ reviewers' = <<>>
  /\ glURL' = UrlParse(GitlabURL)
  /\ mutex' = 0
  /\ tx' = NoTx
  /\ db' = EmptyStore
  /\ UNCHANGED <<config, responses, outbound, failures>>

\* main() of a new process after the old one has died (killed, or exited in
\* logrus.Fatalf): the globals are fresh, bolt.Open opens the file as the last
\* commit left it, the goroutines and the open transaction of the old process are gone
Restart ==
  /\ ~running
  /\ running' = TRUE
  /\ tasks' = [i \in DOMAIN tasks |-> Killed(tasks[i])]
  /\ reviewers' = <<>>
  /\ glURL' = UrlParse(GitlabURL)
  /\ mutex' = 0
  /\ tx' = NoTx
  /\ UNCHANGED <<config, db, responses, outbound, failures>>

\* ---------------------------------------------------- the allow-list source

\* somebody rewrites, empties, breaks or removes reviewers.yaml while the process runs
EditReviewers(files) ==
  /\ \E f \in files : f # reviewersFile /\ reviewersFile' = f
  /\ UNCHANGED <<validLGTMCount, lgtmNote, reviewers, glURL, mutex, db, tx, running,
                 tasks, responses, outbound, failures>>

\* ----------------------------------------------------------- specifications

Thresholds == 1..MaxThreshold

\* the reviewers of the allow-list used in the sequential runs
AllowList == <<alice, bob>>

\* The concurrent system: requests arrive at any time, the background tasks interleave
\* at every access to shared state. alice is on the allow-list, carol is not.
Requests ==
  {JsonPost(Approval(alice, 1, 1, StatusCanbeMerged)),
   JsonPost(Approval(alice, 1, 2, StatusCanbeMerged)),
   JsonPost(Approval(alice, 1, 1, "cannot_be_merged")),
   JsonPost(Approval(carol, 1, 1, StatusCanbeMerged))}

\* The same with a second project.
FairRequests ==
  Requests \cup {JsonPost(Approval(alice, 2, 1, StatusCanbeMerged))}

Init == InitWith(Thresholds, {NoteLGTM}, {FileList(<<alice>>)})

Next ==
  \/ \E r \in Requests : LGTMHandler(r, MaxRequests)
  \/ \E i \in TaskIds : TaskStep(i, {StatusOK, 0})

Spec == Init /\ [][Next]_vars

\* Sequential runs: a request arrives only when every background task has ended.
\* alice and bob are on the allow-list, carol is not.
SeqRequests ==
  {JsonPost(Approval(alice, 1, 1, StatusCanbeMerged)),
   JsonPost(Approval(bob, 1, 1, StatusCanbeMerged)),
   JsonPost(Approval(alice, 1, 1, "cannot_be_merged")),
   JsonPost(Approval(alice, 1, 2, StatusCanbeMerged)),
   JsonPost(Approval(alice, 2, 1, StatusCanbeMerged)),
   JsonPost(Approval(carol, 1, 1, StatusCanbeMerged))}

InitSeq == InitWith(Thresholds, {NoteLGTM}, {FileList(AllowList)})

NextSeq ==
  \/ \E r \in SeqRequests : Idle /\ LGTMHandler(r, MaxSeqRequests)
  \/ \E i \in TaskIds : TaskStep(i, {StatusOK, 0})

SpecSeq == InitSeq /\ [][NextSeq]_vars

\* The concurrent system over a wide input set: every way a request or an event can
\* be wrong, every kind of allow-list file, keywords in upper, lower and mixed case.
Note(text) == Comment(ObjectNote, alice, 1, NoteableTypeMergeRequest, text,
                      1, StatusCanbeMerged, "true")

By(user) == Approval(user, 1, 1, StatusCanbeMerged)

ClassifyRequests ==
  {[ContentType |-> "text/plain", Method |-> "POST",
    Body |-> [kind |-> "json", comment |-> By(alice)]],
   [ContentType |-> "application/json; charset=utf-8", Method |-> "POST",
    Body |-> [kind |-> "json", comment |-> By(alice)]],
   [ContentType |-> "application/json", Method |-> "GET",
    Body |-> [kind |-> "json", comment |-> By(alice)]],
   [ContentType |-> "application/json", Method |-> "POST", Body |-> [kind |-> "empty"]],
   [ContentType |-> "application/json", Method |-> "POST",
    Body |-> [kind |-> "text", char |-> "x"]],
   [ContentType |-> "application/json", Method |-> "POST",
    Body |-> [kind |-> "text", char |-> "%"]]}
  \cup
  {JsonPost(c) : c \in
     {By(alice), By(bob), By(carol), By(AliceCapital),
      Comment("issue", alice, 1, NoteableTypeMergeRequest, lgtm,
              1, StatusCanbeMerged, "true"),
      Comment(ObjectNote, alice, 1, "Issue", lgtm,
              1, StatusCanbeMerged, "true"),
      Comment(ObjectNote, carol, 1, "Issue", lgtmPlease, 1, StatusCanbeMerged, "true"),
      Note(NoteLGTM), Note(Lgtm),
      Note(lgtmPlease), Note(<<>>)}}

Keywords == {NoteLGTM, lgtm, Lgtm}

Files == {FileMissing, FileNoKey, FileList(<<>>), FileList(AllowList), FileMalformed}

InitClassify == InitWith({2}, Keywords, Files)

NextClassify ==
  \/ \E r \in ClassifyRequests : LGTMHandler(r, MaxClassifyRequests)
  \/ \E i \in TaskIds : TaskStep(i, RemoteAnswers)

SpecClassify == InitClassify /\ [][NextClassify]_vars

\* The concurrent system under fair scheduling: a goroutine that can take a step
\* eventually takes one.
InitFair == InitWith(Thresholds, {NoteLGTM}, {FileList(<<alice>>)})

NextFair ==
  \/ \E r \in FairRequests : LGTMHandler(r, MaxFairRequests)
  \/ \E i \in TaskIds : TaskStep(i, {StatusOK, 0})

FairSpec ==
  /\ InitFair
  /\ [][NextFair]_vars
  /\ \A i \in 1..MaxFairRequests : WF_vars(i \in TaskIds /\ TaskStep(i, {StatusOK, 0}))

\* The concurrent system with crashes: the process may die at any point and be
\* started again on the same store file.
InitCrash == InitWith(Thresholds, {NoteLGTM}, {FileList(<<alice>>), FileMalformed})

NextCrash ==
  \/ \E r \in Requests : LGTMHandler(r, MaxCrashRequests)
  \/ \E i \in TaskIds : TaskStep(i, {StatusOK, 0})
  \/ Crash
  \/ Restart

SpecCrash == InitCrash /\ [][NextCrash]_vars

\* Sequential runs in which reviewers.yaml changes: it first holds alice and bob.
ReloadRequests == {JsonPost(By(alice)), JsonPost(By(carol))}

InitReload == InitWith({2}, {NoteLGTM}, {FileList(AllowList)})

NextReload ==
  \/ \E r \in ReloadRequests : Idle /\ LGTMHandler(r, MaxReloadRequests)
  \/ \E i \in TaskIds : TaskStep(i, {StatusOK, 0})
  \/ EditReviewers(Files)

SpecReload == InitReload /\ [][NextReload]_vars

\* The concurrent system with the handler at the finer grain, under fair
\* scheduling: every kind of allow-list file, storage failures, every remote answer.
RespondRequests ==
  {JsonPost(By(alice)), JsonPost(By(carol)),
   [ContentType |-> "text/plain", Method |-> "POST",
    Body |-> [kind |-> "json", comment |-> By(alice)]]}

InitRespond == InitWith({1}, {NoteLGTM}, Files)

NextRespond ==
  \/ \E r \in RespondRequests : HandlerBody(r, MaxRespondRequests)
  \/ \E n \in 1..MaxRespondRequests : HandlerDeferred(n)
  \/ \E i \in TaskIds : TaskStep(i, RemoteAnswers)

SpecRespond ==
  /\ InitRespond
  /\ [][NextRespond]_vars
  /\ \A n \in 1..MaxRespondRequests :
       /\ WF_vars(HandlerDeferred(n))
       /\ WF_vars(n \in TaskIds /\ TaskStep(n, RemoteAnswers))

\* ------------------------------------------------------------ observations

\* the merge-request iids of the inputs
Iids == {1, 2}

\* checkLGTMCount has returned to task i with a nil error
Succeeded(i) ==
  /\ tasks[i].calls = 1
  /\ tasks[i].err = ""
  /\ tasks[i].pc \in {"urlRead", "urlWrite", "send", "done"}

\* the tasks up to i whose increment of iid m succeeded
SucceededOn(m, i) == {j \in 1..i : j \in TaskIds /\ Succeeded(j) /\ tasks[j].comment.Iid = m}

\* the bytes committed under the key of iid m, <<>> when there are none
Stored(m) == BucketGet(db, Itoa(m))

\* the decimal form of a count, <<>> for an entry never written
StoredForm(k) == IF k = 0 THEN <<>> ELSE Itoa(k)

\* the requests sent by task i
SentBy(i) == {n \in DOMAIN outbound : outbound[n].task = i}

\* ------------------------------------------------------------------ claims

\* C1: in a sequential run that starts from an empty store, after k successful
\* calls of checkLGTMCount on iid m the committed count of m is k, and the k-th
\* call returned thresholdReached = TRUE exactly when k mod lgtm_count = 0.
C1_SequentialCount ==
  /\ \A m \in Iids : Stored(m) = StoredForm(Cardinality(SucceededOn(m, Len(tasks))))
  /\ \A i \in TaskIds :
       Succeeded(i) =>
         LET k == Cardinality(SucceededOn(tasks[i].comment.Iid, i))
         IN /\ tasks[i].count = k
            /\ tasks[i].canbeMerged = (k % validLGTMCount = 0)

\* four successful calls on one iid with lgtm_count 2: the 4th reached the
\* threshold, the 3rd did not
C1_Witness ==
  /\ validLGTMCount = 2
  /\ \E i, j \in TaskIds :
       /\ Succeeded(i) /\ Succeeded(j)
       /\ tasks[i].comment.Iid = tasks[j].comment.Iid
       /\ tasks[i].count = 3 /\ ~tasks[i].canbeMerged
       /\ tasks[j].count = 4 /\ tasks[j].canbeMerged
       /\ Stored(tasks[j].comment.Iid) = <<"4">>

\* the tasks that have entered checkLGTMCount for iid m
CallersOn(m) == {j \in TaskIds : tasks[j].calls = 1 /\ tasks[j].comment.Iid = m}

\* C2: whatever the interleaving of the background tasks, the committed count of an
\* iid is the number of calls on it that succeeded and these calls observed the
\* counts 1, 2, ... each once; when no storage step failed and every task has
\* ended, that is the number of tasks that called checkLGTMCount on the iid.
C2_NoLostIncrement ==
  \A m \in Iids :
    LET S == SucceededOn(m, Len(tasks))
    IN /\ Stored(m) = StoredForm(Cardinality(S))
       /\ {tasks[j].count : j \in S} = 1..Cardinality(S)
       /\ (failures = 0 /\ Idle) => S = CallersOn(m)

\* three tasks incremented the same iid with no failure, and the task spawned
\* last was counted first
C2_Witness ==
  /\ failures = 0
  /\ Len(tasks) = 3
  /\ Idle
  /\ \A i \in TaskIds : Succeeded(i) /\ tasks[i].comment.Iid = 1
  /\ tasks[3].count = 1
  /\ tasks[1].count = 3
  /\ Stored(1) = <<"3">>

\* the tasks up to i whose event passed the four checks of checkLgtm, on iid m
PassedOn(m, i) ==
  {j \in 1..i : j \in TaskIds /\ tasks[j].verdict = "pass" /\ tasks[j].comment.Iid = m}

\* C3: in a sequential run with no storage failure, the k-th qualifying event on an
\* iid, when its merge_status is can_be_merged, makes checkLgtm send exactly one
\* merge request if k is a multiple of lgtm_count and none otherwise. (A merge call
\* is a request sent by acceptMergeRequest for the event; its URL is C5's subject.)
C3_MergePerMultiple ==
  failures = 0 =>
    \A i \in TaskIds :
      (/\ tasks[i].pc = "done"
       /\ tasks[i].verdict = "pass"
       /\ tasks[i].comment.MergeStatus = StatusCanbeMerged)
      => LET k == Cardinality(PassedOn(tasks[i].comment.Iid, i))
         IN Cardinality(SentBy(i)) = IF k % validLGTMCount = 0 THEN 1 ELSE 0

\* lgtm_count 2 and four qualifying mergeable events on iid 1: the 2nd and the 4th
\* each sent one merge request, the 1st and the 3rd none
C3_Witness ==
  /\ validLGTMCount = 2
  /\ failures = 0
  /\ Len(tasks) = 4
  /\ Idle
  /\ \A i \in TaskIds :
       /\ tasks[i].verdict = "pass"
       /\ tasks[i].comment.Iid = 1
       /\ tasks[i].comment.MergeStatus = StatusCanbeMerged
  /\ Len(outbound) = 2
  /\ outbound[1].task = 2
  /\ outbound[2].task = 4

\* acceptMergeRequest has sent a request for an event on iid m
MergeSentFor(m) == \E n \in DOMAIN outbound : tasks[outbound[n].task].comment.Iid = m

\* the events on iid m that passed the four checks of checkLgtm
Passed(m) == PassedOn(m, Len(tasks))

SentEvent(n) == tasks[outbound[n].task].comment

\* C5: every request sent by acceptMergeRequest(projectID, mergeRequestIID, ...)
\* targets the configured gitlab URL followed by
\* /api/v4/projects/{projectID}/merge_requests/{mergeRequestIID}/merge.
C5_MergeURL ==
  \A n \in DOMAIN outbound :
    outbound[n].url =
      GitlabURL \o SprintfMergePath(SentEvent(n).ProjectID, SentEvent(n).Iid)

\* C6: a merge request is sent for an event only when at least lgtm_count different
\* commenters have posted a qualifying approval on its iid (the event's commenter
\* included).
C6_DistinctApprovers ==
  \A n \in DOMAIN outbound :
    Cardinality({tasks[j].comment.Username :
                   j \in PassedOn(SentEvent(n).Iid, outbound[n].task)})
      >= validLGTMCount

\* the check of checkLgtm that rejects event c, in the order of the code, given
\* what checkReviewers answered ("" when it was not asked)
FirstFailedCheck(c, authorized) ==
  IF c.ObjectKind # ObjectNote THEN "kind"
  ELSE IF authorized = "no" THEN "reviewer"
  ELSE IF c.NoteableType # NoteableTypeMergeRequest THEN "noteable"
  ELSE IF ToUpper(c.Note) # lgtmNote THEN "note"
  ELSE "pass"

\* C7, what a classified task looks like: the checks were made in the order kind,
\* reviewer, noteable type, note (the reviewer policy is not consulted for a wrong
\* kind); a rejected event has ended without error, without entering
\* checkLGTMCount and without a merge request; an event that passed all four enters
\* checkLGTMCount once.
C7_Classified ==
  \A i \in TaskIds :
    tasks[i].verdict # "" =>
      /\ tasks[i].verdict = FirstFailedCheck(tasks[i].comment, tasks[i].authorized)
      /\ tasks[i].comment.ObjectKind # ObjectNote => tasks[i].authorized = ""
      /\ tasks[i].verdict # "pass" =>
           /\ tasks[i].pc = "done"
           /\ tasks[i].calls = 0
           /\ tasks[i].err = ""
           /\ SentBy(i) = {}
      /\ tasks[i].verdict = "pass" =>
           tasks[i].calls = IF tasks[i].pc = "lock" THEN 0 ELSE 1

\* C7, what a step may change: the committed store changes only by the commit of an
\* event that passed all four checks, which adds one to the count of its iid and
\* leaves every other key alone; a merge request is sent only for such an event.
C7_Step ==
  /\ db' # db =>
       \E i \in TaskIds :
         /\ tasks[i].pc = "commit" /\ tasks'[i].pc # "commit"
         /\ tasks[i].verdict = "pass"
         /\ LET key == Itoa(tasks[i].comment.Iid)
            IN /\ BucketGet(db', key) = Itoa(ReadCount(BucketGet(db, key)) + 1)
               /\ \A x \in (DOMAIN db.kv \cup DOMAIN db'.kv) \ {key} :
                    BucketGet(db', x) = BucketGet(db, x)
  /\ outbound' # outbound =>
       /\ Len(outbound') = Len(outbound) + 1
       /\ tasks[outbound'[Len(outbound')].task].verdict = "pass"

\* C7: an event rejected by one of the four checks of checkLgtm, made in the order
\* kind, reviewer, noteable type, note, is ignored -- checkLgtm returns without error,
\* the store is unchanged, no merge request is sent -- and an event that passes all
\* four is counted exactly once.
C7_IgnoredOrCountedOnce == []C7_Classified /\ [][C7_Step]_vars

\* one event was rejected by the reviewer policy and left the store empty, then an
\* event that passed all four checks was counted once
C7_Witness ==
  /\ Len(tasks) = 2
  /\ tasks[1].verdict = "reviewer" /\ tasks[1].pc = "done"
  /\ tasks[2].verdict = "pass" /\ Succeeded(2) /\ tasks[2].pc = "done"
  /\ Stored(1) = <<"1">>

\* C8: whatever keyword is configured, a note is an approval exactly when it equals
\* the keyword with letter case ignored.
C8_KeywordIgnoringCase ==
  \A i \in TaskIds :
    tasks[i].verdict \in {"note", "pass"} =>
      (tasks[i].verdict = "pass" <=> ToUpper(tasks[i].comment.Note) = ToUpper(lgtmNote))

\* the allow-list of reviewers.yaml authorizes the commenter: it is missing or
\* empty, or it holds the user name
AllowListAuthorizes(username) ==
  \/ reviewersFile.list = <<>>
  \/ \E k \in DOMAIN reviewersFile.list : reviewersFile.list[k] = username

\* C9: checkReviewers returns true exactly when the allow-list is missing or empty
\* or holds the commenter's user name, compared exactly.
C9_ReviewerPolicy ==
  \A i \in TaskIds :
    tasks[i].authorized # "" =>
      (tasks[i].authorized = "yes" <=> AllowListAuthorizes(tasks[i].comment.Username))

\* the request is one LGTMHandler must refuse
BadRequest(r) ==
  \/ r.ContentType # "application/json"
  \/ r.Method # "POST"
  \/ r.Body.kind # "json"

\* C10: LGTMHandler answers a bad request with 400 and the error message
\* ("error occurs:" and the error's text) and spawns nothing; it answers every other
\* request with 200 "OK" and spawns one checkLgtm task for the decoded event.
C10_HandlerResponse ==
  \A n \in DOMAIN responses :
    LET r == responses[n].request
        spawned == {i \in TaskIds : tasks[i].req = n}
    IN IF BadRequest(r)
       THEN /\ responses[n].status = StatusBadRequest
            /\ responses[n].body = SprintfErrorOccurs(HandlerError(r))
            /\ spawned = {}
       ELSE /\ responses[n].status = StatusOK
            /\ responses[n].body = RespOK
            /\ Cardinality(spawned) = 1
            /\ \A i \in spawned : tasks[i].comment = r.Body.comment

\* what acceptMergeRequest is to log for the n-th request sent, by the remote's answer
ExpectedLog(n) ==
  LET a == outbound[n].answer
  IN IF a = 0 THEN "execute request failed"
     ELSE IF a = 200 THEN "accept merge request successfully"
     ELSE IF a = 405 THEN "it has some conflicts and can not be merged"
     ELSE IF a = 406 THEN "merge request is already merged or closed"
     ELSE "accept merge failed"

\* C11: a call of acceptMergeRequest sends at most one request and returns to
\* checkLgtm, which ends without an error: the answer 200 is logged as success, 405
\* as a conflict, 406 as already merged or closed, any other code as a generic
\* failure, and a request that failed on the network as a failed request.
C11_OneRequestClassified ==
  /\ \A i \in TaskIds :
       /\ Cardinality(SentBy(i)) <= 1
       /\ tasks[i].pc \in {"urlRead", "urlWrite", "send"} => SentBy(i) = {}
  /\ \A n \in DOMAIN outbound :
       LET t == tasks[outbound[n].task]
       IN /\ t.pc = "done"
          /\ t.sent = n
          /\ t.err = ""
          /\ t.log = ExpectedLog(n)

\* a call of acceptMergeRequest whose request was answered 406 has returned and
\* checkLgtm has ended
C11_Witness ==
  /\ Len(outbound) = 1
  /\ outbound[1].answer = StatusNotAcceptable
  /\ tasks[outbound[1].task].log = "merge request is already merged or closed"
  /\ tasks[outbound[1].task].pc = "done"
  /\ tasks[outbound[1].task].err = ""

\* the storage steps of checkLGTMCount
StorageSteps == {"begin", "bucket", "put", "commit"}

\* C12, the task whose call failed: checkLGTMCount returned the error of the failing
\* step, with thresholdReached false unless the step is the commit; checkLgtm has
\* ended and no merge request was sent for the event.
C12_FailedCall ==
  \A i \in TaskIds :
    tasks[i].err # "" =>
      /\ tasks[i].err \in StorageSteps
      /\ tasks[i].calls = 1
      /\ tasks[i].pc = "done"
      /\ SentBy(i) = {}
      /\ tasks[i].err # "commit" => ~tasks[i].canbeMerged

\* C12, the store: from the moment a task holds the lock until its call returns, the
\* committed store changes only by that task's own commit, and only when the commit
\* returns no error; a step on which a call returns an error leaves it as it was.
C12_Step ==
  /\ db' # db =>
       \E i \in TaskIds :
         /\ mutex = i
         /\ tasks[i].pc = "commit"
         /\ tasks'[i].err = ""
  /\ \A i \in TaskIds :
       (tasks[i].err = "" /\ tasks'[i].err # "") =>
         /\ tasks[i].pc = tasks'[i].err
         /\ mutex = i
         /\ db' = db

\* C12: when a storage step of checkLGTMCount fails (begin, create bucket, write or
\* commit), the call returns the error, the committed count of every iid is what it
\* was before the call, and checkLgtm sends no merge request for the event, also
\* when the commit failed and thresholdReached is true.
C12_FailureDropsApproval == []C12_FailedCall /\ [][C12_Step]_vars

\* lgtm_count 1: the commit of the first approval failed with thresholdReached
\* true on a mergeable event; the store is empty and nothing was sent
C12_Witness ==
  /\ Len(tasks) = 1
  /\ tasks[1].err = "commit"
  /\ tasks[1].canbeMerged
  /\ tasks[1].comment.MergeStatus = StatusCanbeMerged
  /\ tasks[1].pc = "done"
  /\ db = EmptyStore
  /\ outbound = <<>>

\* where checkLgtm is once checkLGTMCount has returned
AfterCount == {"urlRead", "urlWrite", "send", "done"}

\* the call of checkLGTMCount by task i committed: it returned a nil error, in this
\* process or in one that has died since
Committed(i) ==
  /\ tasks[i].calls = 1
  /\ tasks[i].err = ""
  /\ \/ tasks[i].pc \in AfterCount
     \/ tasks[i].pc = "exited" /\ tasks[i].at \in AfterCount

\* the calls on iid m that committed
CommittedOn(m) == {i \in TaskIds : Committed(i) /\ tasks[i].comment.Iid = m}

\* C13, in every state, dead and restarted processes included: the committed count
\* of an iid is the number of calls of checkLGTMCount on it that committed, and the
\* count a new transaction reads is that number.
C13_CountIsCommits ==
  \A m \in Iids :
    /\ Stored(m) = StoredForm(Cardinality(CommittedOn(m)))
    /\ ReadCount(BucketGet(db, Itoa(m))) = Cardinality(CommittedOn(m))

\* C13, the steps: the death of the process and the start of the next one leave
\* the committed store as it is, whatever the goroutines were doing; the store
\* changes only on the step on which a call commits and returns without error.
C13_Step ==
  /\ running' # running => db' = db
  /\ db' # db =>
       \E i \in TaskIds : ~Committed(i) /\ Committed(i)' /\ tasks[i].pc = "commit"

\* C13: a crash after a call of checkLGTMCount has returned successfully keeps that
\* increment, a crash during a call leaves the prior committed value; in every
\* reachable state the committed count of an iid is the number of calls on it that
\* committed.
C13_CrashDurability == []C13_CountIsCommits /\ [][C13_Step]_vars

\* the process died after the first approval of iid 1 was committed and while the
\* second one was inside its transaction, past the write; after the restart the
\* count is 1
C13_Witness ==
  /\ running
  /\ Len(tasks) = 2
  /\ tasks[1].comment.Iid = 1 /\ tasks[2].comment.Iid = 1
  /\ Committed(1)
  /\ tasks[2].pc = "exited" /\ tasks[2].at = "commit" /\ tasks[2].count = 2
  /\ Stored(1) = <<"1">>
  /\ tx = NoTx

\* task i is inside checkLGTMCount
InCall(i) == i \in TaskIds /\ tasks[i].pc \in {"begin", "bucket", "put", "commit"}

\* task i has called checkLGTMCount and the call has returned
CallReturned(i) == i \in TaskIds /\ tasks[i].calls = 1 /\ tasks[i].pc \in AfterCount

\* C14, the exit paths: a task whose call has returned, with or without an error,
\* holds neither the mutex nor bolt's write transaction.
C14_Released ==
  \A i \in TaskIds : CallReturned(i) => (mutex # i /\ tx.owner # i)

\* C14: every exit path of checkLGTMCount releases the mutex and ends the write
\* transaction, so that under fair scheduling every call of checkLGTMCount, one
\* started after a failed call included, eventually returns.
C14_StoreUsable ==
  /\ []C14_Released
  /\ \A i \in 1..MaxFairRequests :
       (i \in TaskIds /\ tasks[i].pc = "lock") ~> CallReturned(i)

\* C15, the writes: a step of a background task writes no process-wide variable
\* other than the store (the committed file and bolt's write transaction), and
\* every step that touches the store is taken by the task that holds the mutex.
C15_Step ==
  /\ reviewers' = reviewers
  /\ glURL' = glURL
  /\ (db' # db \/ tx' # tx) =>
       \E i \in TaskIds : mutex = i /\ tasks'[i] # tasks[i]

\* C15, the race: no two background tasks are at the same time about to access
\* reviewers.Reviewers or glURL.Path, one of them to write it.
C15_NoRace ==
  \A i, j \in TaskIds :
    i # j =>
      /\ ~(/\ tasks[i].pc = "fill"
           /\ tasks[j].pc \in {"fill", "len", "range", "iter"})
      /\ ~(/\ tasks[i].pc = "urlWrite"
           /\ tasks[j].pc \in {"urlRead", "urlWrite", "send"})

\* C15: the only process-wide state a background task writes is the approval
\* counter store, every access to it is made under the mutex, and no two background
\* tasks race on unprotected shared state.
C15_OnlyStoreShared == []C15_NoRace /\ [][C15_Step]_vars

\* what the allow-list source held when task i read it authorizes the commenter:
\* it could not be loaded or yields no entry, or it holds the user name
SourceAuthorizes(i) ==
  \/ tasks[i].doc.list = <<>>
  \/ \E k \in DOMAIN tasks[i].doc.list : tasks[i].doc.list[k] = tasks[i].comment.Username

\* C16: whatever the allow-list source held before, the answer of checkReviewers is
\* that of the policy on what the source holds when the check reads it -- everyone
\* is authorized when it cannot be loaded or yields an empty list -- and the check
\* never terminates the process.
C16_ReloadedEachCheck ==
  /\ running
  /\ \A i \in TaskIds :
       tasks[i].authorized # "" => (tasks[i].authorized = "yes" <=> SourceAuthorizes(i))

\* the tasks up to i whose increment succeeded for the merge request of task i:
\* the same project and the same iid
SucceededOnMergeRequest(i) ==
  {j \in 1..i : /\ Succeeded(j)
                /\ tasks[j].comment.ProjectID = tasks[i].comment.ProjectID
                /\ tasks[j].comment.Iid = tasks[i].comment.Iid}

\* C17: in a sequential run the count an approval reaches, and with it the merge
\* decision, is the number of approvals counted so far for its own merge request
\* (project and iid): approvals of another iid, or of the same iid in another
\* project, do not move it.
C17_PerMergeRequest ==
  \A i \in TaskIds :
    Succeeded(i) =>
      LET k == Cardinality(SucceededOnMergeRequest(i))
      IN /\ tasks[i].count = k
         /\ tasks[i].canbeMerged = (k % validLGTMCount = 0)

\* the sequence s ends with the sequence e
EndsWith(s, e) ==
  Len(s) >= Len(e) /\ SubSeq(s, Len(s) - Len(e) + 1, Len(s)) = e

\* C18: a merge request is sent only for an event whose merge_status is
\* can_be_merged -- an event with another merge_status ends without one even when
\* its increment returned thresholdReached true -- and the request sent for an event
\* is addressed to that event's project and iid and carries its
\* remove-source-branch value.
C18_MergeableOnly ==
  /\ \A i \in TaskIds :
       (tasks[i].comment.MergeStatus # StatusCanbeMerged) =>
         (SentBy(i) = {} /\ tasks[i].pc \notin {"urlRead", "urlWrite", "send"})
  /\ \A n \in DOMAIN outbound :
       /\ SentEvent(n).MergeStatus = StatusCanbeMerged
       /\ outbound[n].body = MergeBody(SentEvent(n).ForceRemoveSourceBranch)
       /\ EndsWith(outbound[n].url,
                   SprintfMergePath(SentEvent(n).ProjectID, SentEvent(n).Iid))

\* the response to the n-th request has been written
Responded(n) == n \in DOMAIN responses /\ responses[n].status # 0

\* C19, the content: the responses written to the same request are the same,
\* whatever the allow-list, the store, the storage failures and the remote answers
\* were when each was written.
C19_SameResponse ==
  \A n, m \in DOMAIN responses :
    (Responded(n) /\ Responded(m) /\ responses[n].request = responses[m].request) =>
      (responses[n].status = responses[m].status /\ responses[n].body = responses[m].body)

\* C19: the response of LGTMHandler depends on the request alone, and every request
\* received is answered whatever the background task does or fails to do.
C19_ResponseIndependent ==
  /\ []C19_SameResponse
  /\ \A n \in 1..MaxRespondRequests : (n \in DOMAIN responses) ~> Responded(n)

====
